---- MODULE Spec2Model ----
(***************************************************************************)
(* The workflow engine of src/services/workflowExecutor.ts: the class      *)
(* WorkflowExecutor (execute, the trigger matcher, the propagation loop,   *)
(* the per-kind node steps, the condition evaluator) as a state machine.   *)
(*                                                                         *)
(* Strings that the code inspects character by character (the trigger's    *)
(* eventType, the event's type) are sequences of one-character strings.    *)
(* JavaScript values that the evaluator reads are tagged records           *)
(* (JUndefined, JNull, JNum, JObj).  A call that can throw returns a       *)
(* record [threw, val].                                                    *)
(***************************************************************************)
EXTENDS Integers, Sequences, FiniteSets, TLC

VARIABLES
    nodes,          \* the `nodes` argument of executeWorkflow (disabled ones included)
    connections,    \* the `connections` argument: a set of [sourceId, targetId]
    event,          \* the `event` argument
    logs,           \* WorkflowExecutor.logs
    executedNodes,  \* WorkflowExecutor.executedNodes, in insertion order
    nodeConditions, \* WorkflowExecutor.nodeConditions
    pc,             \* where execute() stands
    ti,             \* index of the `for (const triggerNode of triggerNodes)` loop
    changed,        \* propagateExecution: `changed`
    iterations,     \* propagateExecution: `iterations`
    ni,             \* index of the `for (const node of this.nodes)` loop
    result,         \* what execute() returned (NoResult until it returns)
    others          \* the invocations of execute() other than the one above

vars == <<nodes, connections, event, logs, executedNodes, nodeConditions,
          pc, ti, changed, iterations, ni, result, others>>

----------------------------------------------------------------------------
(* Bounds of the model *)

MaxNodes == 3
MaxConns == 2
MaxMalformed == 1
MaxPatLen == 2
MaxTypeLen == 2
MaxValConns == 3
MaxGroupLen == 2
MaxActions == 2
MaxChain == 99

(* Program constants *)

maxIterations == 100

NT_TRIGGER == "TRIGGER"
NT_CONDITION == "CONDITION"
NT_ACTION == "ACTION"

----------------------------------------------------------------------------
(* JavaScript values *)

JUndefined == [t |-> "undefined"]
JNull == [t |-> "null"]
JNum(n) == [t |-> "number", v |-> n]
JNaN == [t |-> "NaN"]
JObj(f) == [t |-> "object", f |-> f]
(* a string, by its characters *)
JStr(s) == [t |-> "string", s |-> s]
(* a string holding a dotted path, by its parts: path.split(".") *)
JPath(parts) == [t |-> "string", parts |-> parts]
JBool(b) == [t |-> "boolean", v |-> b]

Returned(v) == [threw |-> FALSE, val |-> v]
Threw == [threw |-> TRUE, val |-> FALSE]

(* a function object, such as the constructor that every value inherits *)
JFunction == [t |-> "function"]

(* value[part] on a value that is neither null nor undefined: a property of
   the value itself (a key of an object, the length of a string or of a
   function), else one it inherits; of those the model has `constructor` *)
GetProp(value, part) ==
    CASE value.t = "object" /\ part \in DOMAIN value.f -> value.f[part]
      [] value.t = "string" /\ "s" \in DOMAIN value /\ part = "length" -> JNum(Len(value.s))
      [] value.t = "function" /\ part = "length" -> JNum(1)
      [] part = "constructor" -> JFunction
      [] OTHER -> JUndefined

Digits == <<"0", "1", "2", "3", "4", "5", "6", "7", "8", "9">>

IsDigit(c) == \E d \in 1..10 : Digits[d] = c

DigitValue(c) == (CHOOSE d \in 1..10 : Digits[d] = c) - 1

(* the number a string of decimal digits denotes *)
RECURSIVE DigitsValue(_)
DigitsValue(s) ==
    IF s = <<>> THEN 0
    ELSE 10 * DigitsValue(SubSeq(s, 1, Len(s) - 1)) + DigitValue(s[Len(s)])

UpperCase ==
    <<"A", "B", "C", "D", "E", "F", "G", "H", "I", "J", "K", "L", "M",
      "N", "O", "P", "Q", "R", "S", "T", "U", "V", "W", "X", "Y", "Z">>
LowerCase ==
    <<"a", "b", "c", "d", "e", "f", "g", "h", "i", "j", "k", "l", "m",
      "n", "o", "p", "q", "r", "s", "t", "u", "v", "w", "x", "y", "z">>

(* s.toLowerCase() *)
toLowerCase(s) ==
    [i \in 1..Len(s) |->
        IF \E k \in 1..26 : UpperCase[k] = s[i]
        THEN LowerCase[CHOOSE k \in 1..26 : UpperCase[k] = s[i]]
        ELSE s[i]]

(* s.trim(); the white space of the model is the blank *)
RECURSIVE trim(_)
trim(s) ==
    IF s = <<>> THEN s
    ELSE IF Head(s) = " " THEN trim(Tail(s))
    ELSE IF s[Len(s)] = " " THEN trim(SubSeq(s, 1, Len(s) - 1))
    ELSE s

(* s.split(","): the pieces between the commas, at least one *)
RECURSIVE split(_)
split(s) ==
    IF \A i \in 1..Len(s) : s[i] # ","
    THEN <<s>>
    ELSE LET i == CHOOSE k \in 1..Len(s) :
                      s[k] = "," /\ \A j \in 1..(k - 1) : s[j] # ","
         IN  <<SubSeq(s, 1, i - 1)>> \o split(SubSeq(s, i + 1, Len(s)))

(* parts.join(".") *)
RECURSIVE join(_)
join(parts) ==
    IF parts = <<>> THEN <<>>
    ELSE IF Len(parts) = 1 THEN parts[1]
    ELSE parts[1] \o <<".">> \o join(Tail(parts))

(* s.includes(sub) *)
includes(s, sub) ==
    \E i \in 0..(Len(s) - Len(sub)) : SubSeq(s, i + 1, i + Len(sub)) = sub

(* the characters of a string, which the model keeps as they are or as the
   parts of a dotted path *)
Chars(x) == IF "s" \in DOMAIN x THEN x.s ELSE join(x.parts)

(* the decimal digits of a natural number *)
RECURSIVE NatToString(_)
NatToString(n) ==
    IF n < 10 THEN <<Digits[n + 1]>>
    ELSE NatToString(n \div 10) \o <<Digits[(n % 10) + 1]>>

(* String(x); the numbers of the model are integers, and no function is
   converted *)
String(x) ==
    CASE x.t = "string" -> Chars(x)
      [] x.t = "number" -> IF x.v < 0 THEN <<"-">> \o NatToString(0 - x.v)
                           ELSE NatToString(x.v)
      [] x.t = "boolean" -> IF x.v THEN <<"t", "r", "u", "e">>
                            ELSE <<"f", "a", "l", "s", "e">>
      [] x.t = "null" -> <<"n", "u", "l", "l">>
      [] x.t = "undefined" -> <<"u", "n", "d", "e", "f", "i", "n", "e", "d">>
      [] x.t = "NaN" -> <<"N", "a", "N">>
      [] x.t = "object" ->
            <<"[", "o", "b", "j", "e", "c", "t", " ", "O", "b", "j", "e", "c", "t", "]">>

(* the number that a string without white space around it denotes: the
   empty string 0, decimal digits with an optional sign their value; the
   strings of the model hold no fraction, exponent or radix prefix, so every
   other string is NaN *)
DecimalOf(t) ==
    LET body == IF t # <<>> /\ Head(t) \in {"-", "+"} THEN Tail(t) ELSE t
    IN  IF t = <<>> THEN JNum(0)
        ELSE IF body # <<>> /\ (\A i \in 1..Len(body) : IsDigit(body[i]))
             THEN JNum(IF Head(t) = "-" THEN 0 - DigitsValue(body) ELSE DigitsValue(body))
        ELSE JNaN

(* Number(s) of a string: white space around it is dropped *)
StringToNumber(s) == DecimalOf(trim(s))

(* Number(x) *)
ToNumber(x) ==
    CASE x.t = "number" -> x
      [] x.t = "null" -> JNum(0)
      [] x.t = "boolean" -> JNum(IF x.v THEN 1 ELSE 0)
      [] x.t = "string" -> StringToNumber(Chars(x))
      [] OTHER -> JNaN

isNaN(x) == x.t = "NaN"

(* !x *)
Falsy(x) ==
    \/ x.t \in {"undefined", "null", "NaN"}
    \/ x.t = "number" /\ x.v = 0
    \/ x.t = "boolean" /\ ~x.v
    \/ x.t = "string" /\ "s" \in DOMAIN x /\ x.s = <<>>
    \/ x.t = "string" /\ "parts" \in DOMAIN x /\ x.parts = <<>>

(* actual == expected (loose equality) on the values of the model *)
RECURSIVE LooseEq(_, _)
LooseEq(a, b) ==
    CASE a.t \in {"undefined", "null"} -> b.t \in {"undefined", "null"}
      [] b.t \in {"undefined", "null"} -> FALSE
      [] a.t = "boolean" -> LooseEq(ToNumber(a), b)
      [] b.t = "boolean" -> LooseEq(a, ToNumber(b))
      [] a.t = "number" /\ b.t = "number" -> a.v = b.v
      [] a.t = "string" /\ b.t = "string" -> a = b
      [] a.t = "number" /\ b.t = "string" -> ToNumber(b) = a
      [] a.t = "string" /\ b.t = "number" -> ToNumber(a) = b
      [] OTHER -> FALSE

----------------------------------------------------------------------------
(* Strings as sequences of characters *)

Str_any == <<"a", "n", "y">>

Includes(s, c) == \E i \in 1..Len(s) : s[i] = c

(* eventType.replace(/\*/g, ".*") *)
RECURSIVE ReplaceStar(_)
ReplaceStar(s) ==
    IF s = <<>> THEN <<>>
    ELSE IF Head(s) = "*" THEN <<".", "*">> \o ReplaceStar(Tail(s))
    ELSE <<Head(s)>> \o ReplaceStar(Tail(s))

(* new RegExp(src): the atoms of the pattern, each with its `*` flag.  The
   constructor throws a SyntaxError on an unterminated group (the strings of
   the model hold no `)`, so every `(` opens one), on an unmatched `)` and on
   a `*` with nothing to repeat. *)
RECURSIVE RegExpAtoms(_)
RegExpAtoms(src) ==
    IF src = <<>> THEN <<>>
    ELSE IF Len(src) >= 2 /\ src[2] = "*"
         THEN <<[c |-> src[1], star |-> TRUE]>> \o RegExpAtoms(SubSeq(src, 3, Len(src)))
         ELSE <<[c |-> src[1], star |-> FALSE]>> \o RegExpAtoms(Tail(src))

RegExpValid(src) ==
    /\ ~Includes(src, "(")
    /\ ~Includes(src, ")")
    /\ \A i \in 1..Len(RegExpAtoms(src)) : RegExpAtoms(src)[i].c # "*"

AtomAccepts(atom, ch) == atom.c = "." \/ atom.c = ch

(* regex.test(s) for ^atoms$ : atoms from i on match s from j to its end *)
RECURSIVE RegExpMatchFrom(_, _, _, _)
RegExpMatchFrom(atoms, i, s, j) ==
    IF i > Len(atoms) THEN j > Len(s)
    ELSE IF atoms[i].star
         THEN \/ RegExpMatchFrom(atoms, i + 1, s, j)
              \/ /\ j <= Len(s)
                 /\ AtomAccepts(atoms[i], s[j])
                 /\ RegExpMatchFrom(atoms, i, s, j + 1)
         ELSE /\ j <= Len(s)
              /\ AtomAccepts(atoms[i], s[j])
              /\ RegExpMatchFrom(atoms, i + 1, s, j + 1)

RegExpTest(src, s) == RegExpMatchFrom(RegExpAtoms(src), 1, s, 1)

(* new RegExp(src).test(s) for a pattern without anchors: some part of s
   matches, which is what ^.*src.*$ accepts *)
RegExpSearch(src, s) == RegExpTest(<<".", "*">> \o src \o <<".", "*">>, s)

----------------------------------------------------------------------------
(* The executor's view of its input *)

(* this.nodes = nodes.filter((n) => n.enabled) *)
thisNodes == SelectSeq(nodes, LAMBDA n : n.enabled)

(* this.nodes.find((n) => n.id === nodeId); ids are unique *)
HasNode(nodeId) == \E i \in 1..Len(thisNodes) : thisNodes[i].id = nodeId
FindNode(nodeId) == thisNodes[CHOOSE i \in 1..Len(thisNodes) : thisNodes[i].id = nodeId]

SeqHas(s, x) == \E i \in 1..Len(s) : s[i] = x

(* a variant that also finds disabled Trigger nodes *)
findTriggerNodes_AllNodes == SelectSeq(nodes, LAMBDA n : n.type = NT_TRIGGER)

findTriggerNodes == SelectSeq(thisNodes, LAMBDA n : n.type = NT_TRIGGER)

(* Set.add on the insertion-ordered executed set *)
SetAdd(s, x) == IF SeqHas(s, x) THEN s ELSE Append(s, x)

(* shouldExecuteTrigger; an empty eventType stands for a missing or empty
   one (both are falsy at `|| "any"`) *)
shouldExecuteTrigger(triggerNode, ev) ==
    LET eventType == IF triggerNode.data.eventType = <<>> THEN Str_any
                     ELSE triggerNode.data.eventType
    IN  IF eventType = Str_any THEN Returned(TRUE)
        ELSE IF Includes(eventType, "*")
             THEN LET pattern == ReplaceStar(eventType)
                  IN  IF RegExpValid(pattern) THEN Returned(RegExpTest(pattern, ev.type))
                      ELSE Threw
             ELSE Returned(ev.type = eventType)

----------------------------------------------------------------------------
(* Log entries: level, the suffix of the entry's id, and the details the
   model uses *)

LogEntry(level, suffix, nodeId, passed, index) ==
    [level |-> level, suffix |-> suffix, nodeId |-> nodeId, passed |-> passed,
     index |-> index]

NoNode == 0

(* the executor's mutable fields as one record *)
State(l, e, c) == [logs |-> l, executedNodes |-> e, nodeConditions |-> c]

(* a variant that puts the entry in front *)
addLog_Unshift(st, log) == [st EXCEPT !.logs = <<log>> \o @]

(* this.logs.push(log) *)
addLog(st, log) == [st EXCEPT !.logs = Append(@, log)]

setCondition(st, nodeId, b) ==
    [st EXCEPT !.nodeConditions = [@ EXCEPT ![nodeId] = IF b THEN "true" ELSE "false"]]

----------------------------------------------------------------------------
(* Condition evaluator *)

(* {...context.data, ...context.event, ...context.globals}; the events of
   the model have empty globals *)
mergedView(ev) ==
    JObj([k \in DOMAIN ev.data.f \cup {"type", "data", "globals"} |->
             CASE k = "type" -> JStr(ev.type)
               [] k = "data" -> ev.data
               [] k = "globals" -> JObj(<<>>)
               [] OTHER -> ev.data.f[k]])

getValueFromPath(path, ev) ==
    IF Falsy(path) THEN Returned(JUndefined)
    ELSE IF path.t # "string" THEN Threw   \* path.split is not a function
    ELSE
        LET walk[i \in 0..Len(path.parts)] ==
                IF i = 0 THEN mergedView(ev)
                ELSE IF walk[i - 1].t \in {"null", "undefined"} THEN JUndefined
                ELSE GetProp(walk[i - 1], path.parts[i])
        IN  Returned(walk[Len(path.parts)])

(* a variant whose GTE and LTE compare strictly *)
compareValues_Strict(actual, operator, expected) ==
    LET actualNum == ToNumber(actual)
        expectedNum == ToNumber(expected)
        bothNum == ~isNaN(actualNum) /\ ~isNaN(expectedNum)
    IN  CASE operator \in {"EQ", "=="} -> LooseEq(actual, expected)
          [] operator \in {"NEQ", "!="} -> ~LooseEq(actual, expected)
          [] operator \in {"GT", ">", "GTE", ">="} -> bothNum /\ actualNum.v > expectedNum.v
          [] operator \in {"LT", "<", "LTE", "<="} -> bothNum /\ actualNum.v < expectedNum.v
          [] OTHER -> FALSE

(* lines 425-483: the switch over the operator, on the operands and what
   lines 420-423 and 463-473 made of them; isNaN(undefined) is true *)
switchOperator(actual, operator, expected, actualNum, expectedNum, actualStr, expectedStr, expectedArray, min, max) ==
    LET bothNum == ~isNaN(actualNum) /\ ~isNaN(expectedNum)
    IN  CASE operator \in {"EQ", "=="} -> LooseEq(actual, expected)
          [] operator \in {"NEQ", "!="} -> ~LooseEq(actual, expected)
          [] operator \in {"GT", ">"} -> bothNum /\ actualNum.v > expectedNum.v
          [] operator \in {"LT", "<"} -> bothNum /\ actualNum.v < expectedNum.v
          [] operator \in {"GTE", ">="} -> bothNum /\ actualNum.v >= expectedNum.v
          [] operator \in {"LTE", "<="} -> bothNum /\ actualNum.v <= expectedNum.v
          [] operator = "CONTAINS" -> includes(actualStr, expectedStr)
          [] operator = "MATCHES" ->
                IF RegExpValid(expectedStr) THEN RegExpSearch(expectedStr, actualStr)
                ELSE FALSE
          [] operator = "IN" -> SeqHas(expectedArray, String(actual))
          [] operator = "NOT_IN" -> ~SeqHas(expectedArray, String(actual))
          [] operator = "RANGE" ->
                /\ ~isNaN(actualNum) /\ ~isNaN(min) /\ ~isNaN(max)
                /\ actualNum.v >= min.v
                /\ actualNum.v <= max.v
          [] OTHER -> FALSE

(* String(x || "").toLowerCase() *)
lowerString(x) == toLowerCase(String(IF Falsy(x) THEN JStr(<<>>) ELSE x))

(* the i-th of pieces.map(Number), undefined when there is none *)
numberAt(pieces, i) == IF Len(pieces) >= i THEN StringToNumber(pieces[i]) ELSE JNaN

(* pieces.map((s) => s.trim()) *)
trimAll(pieces) == [k \in 1..Len(pieces) |-> trim(pieces[k])]

expectedPieces(expected) == split(String(expected))

compareValues(actual, operator, expected) ==
    switchOperator(actual, operator, expected, ToNumber(actual), ToNumber(expected),
                   lowerString(actual), lowerString(expected),
                   trimAll(expectedPieces(expected)),
                   numberAt(expectedPieces(expected), 1),
                   numberAt(expectedPieces(expected), 2))

evaluateSimpleCondition(conditionData, ev) ==
    IF conditionData.t = "null" THEN Threw
    ELSE LET fieldPath == IF Falsy(conditionData.field) THEN JPath(<<>>)
                          ELSE conditionData.field
             operator == IF conditionData.operator = "" THEN "EQ"
                         ELSE conditionData.operator
             actualValue == getValueFromPath(fieldPath, ev)
         IN  IF actualValue.threw THEN Threw
             ELSE Returned(compareValues(actualValue.val, operator, conditionData.value))

(* a variant without the early return for an empty condition list *)
evaluateGroupCondition_NoEmptyCase(conditionData, ev) ==
    LET logic == IF conditionData.logic = "" THEN "AND" ELSE conditionData.logic
        conditions == conditionData.conditions
        results == [i \in 1..Len(conditions) |-> evaluateSimpleCondition(conditions[i], ev)]
    IN  IF \E i \in 1..Len(conditions) : results[i].threw THEN Threw
        ELSE IF logic = "AND"
             THEN Returned(\A i \in 1..Len(conditions) : results[i].val)
        ELSE IF logic = "OR"
             THEN Returned(\E i \in 1..Len(conditions) : results[i].val)
        ELSE Returned(FALSE)

evaluateGroupCondition(conditionData, ev) ==
    LET logic == IF conditionData.logic = "" THEN "AND" ELSE conditionData.logic
        conditions == conditionData.conditions
        results == [i \in 1..Len(conditions) |-> evaluateSimpleCondition(conditions[i], ev)]
    IN  IF Len(conditions) = 0 THEN Returned(TRUE)
        ELSE IF \E i \in 1..Len(conditions) : results[i].threw THEN Threw
        ELSE IF logic = "AND"
             THEN Returned(\A i \in 1..Len(conditions) : results[i].val)
        ELSE IF logic = "OR"
             THEN Returned(\E i \in 1..Len(conditions) : results[i].val)
        ELSE Returned(FALSE)

----------------------------------------------------------------------------
(* The per-kind node steps: each returns [threw, val], val the new state *)

executeTrigger(node, st) ==
    Returned(setCondition(addLog(st, LogEntry("TRIGGER", "trigger", node.id, FALSE, 0)),
                          node.id, TRUE))

executeCondition(node, st, ev) ==
    LET mode == IF node.data.mode = "" THEN "SIMPLE" ELSE node.data.mode
        passed == IF mode = "SIMPLE" THEN evaluateSimpleCondition(node.data, ev)
                  ELSE IF mode = "GROUP" THEN evaluateGroupCondition(node.data, ev)
                  ELSE Returned(FALSE)
    IN  IF passed.threw THEN Threw
        ELSE Returned(setCondition(
                 addLog(st, LogEntry("CONDITION", "condition", node.id, passed.val, 0)),
                 node.id, passed.val))

RECURSIVE executeActions(_, _, _)
executeActions(actions, i, st) ==
    IF i > Len(actions) THEN st
    ELSE executeActions(actions, i + 1,
                        addLog(st, LogEntry("ACTION", "action", NoNode, FALSE, i - 1)))

(* a variant that omits the completion entry *)
executeAction_NoComplete(node, st) ==
    LET actions == node.data.actions
    IN  IF \E i \in 1..Len(actions) : actions[i].t = "null" THEN Threw
        ELSE Returned(setCondition(
                 executeActions(actions, 1,
                     addLog(st, LogEntry("ACTION", "action-start", node.id, FALSE, 0))),
                 node.id, TRUE))

(* a variant that dispatches only the first action unless the mode is
   SEQUENCE or ALL *)
executeAction_SingleFirstOnly(node, st) ==
    LET actions == IF node.data.mode \in {"SEQUENCE", "ALL"} \/ node.data.actions = <<>>
                   THEN node.data.actions
                   ELSE <<node.data.actions[1]>>
    IN  IF \E i \in 1..Len(actions) : actions[i].t = "null" THEN Threw
        ELSE Returned(setCondition(
                 addLog(executeActions(actions, 1,
                            addLog(st, LogEntry("ACTION", "action-start", node.id, FALSE, 0))),
                        LogEntry("ACTION", "action-complete", node.id, FALSE, 0)),
                 node.id, TRUE))

(* lines 279-325; the mode selects only the pause between two dispatches
   (lines 310-312), which changes no field *)
executeAction(node, st) ==
    LET actions == node.data.actions
    IN  IF \E i \in 1..Len(actions) : actions[i].t = "null" THEN Threw
        ELSE Returned(setCondition(
                 addLog(executeActions(actions, 1,
                            addLog(st, LogEntry("ACTION", "action-start", node.id, FALSE, 0))),
                        LogEntry("ACTION", "action-complete", node.id, FALSE, 0)),
                 node.id, TRUE))

(* the switch of executeNode *)
kindStep(node, st, ev) ==
    CASE node.type = NT_TRIGGER -> executeTrigger(node, st)
      [] node.type = NT_CONDITION -> executeCondition(node, st, ev)
      [] node.type = NT_ACTION -> executeAction(node, st)

(* a variant that marks the node executed although its step threw *)
executeNode_MarksOnError(node, st, ev) ==
    LET started == addLog(st, LogEntry("INIT", "start", node.id, FALSE, 0))
        step == kindStep(node, started, ev)
    IN  IF step.threw
        THEN [addLog(started, LogEntry("ERROR", "error", node.id, FALSE, 0))
                 EXCEPT !.executedNodes = SetAdd(@, node.id)]
        ELSE [step.val EXCEPT !.executedNodes = SetAdd(@, node.id)]

executeNode(node, st, ev) ==
    LET started == addLog(st, LogEntry("INIT", "start", node.id, FALSE, 0))
        step == kindStep(node, started, ev)
    IN  IF step.threw
        THEN addLog(started, LogEntry("ERROR", "error", node.id, FALSE, 0))
        ELSE [step.val EXCEPT !.executedNodes = SetAdd(@, node.id)]

----------------------------------------------------------------------------
(* Propagation *)

(* a variant in which a Filter passes as soon as it has an outcome *)
nodePassedCondition_AnyOutcome(nodeId, conds) ==
    IF ~HasNode(nodeId) THEN FALSE
    ELSE IF FindNode(nodeId).type \in {NT_TRIGGER, NT_ACTION} THEN TRUE
    ELSE conds[nodeId] # "unset"

nodePassedCondition(nodeId, conds) ==
    IF ~HasNode(nodeId) THEN FALSE
    ELSE IF FindNode(nodeId).type \in {NT_TRIGGER, NT_ACTION} THEN TRUE
    ELSE conds[nodeId] = "true"

parentConnections(nodeId) == {c \in connections : c.targetId = nodeId}

allParentsExecuted(nodeId, executed) ==
    \A c \in parentConnections(nodeId) : SeqHas(executed, c.sourceId)

(* a variant in which only Trigger sources count as passed *)
anyParentPassed_TriggersOnly(nodeId, conds) ==
    \E c \in parentConnections(nodeId) :
        HasNode(c.sourceId) /\ FindNode(c.sourceId).type = NT_TRIGGER

anyParentPassed(nodeId, conds) ==
    \E c \in parentConnections(nodeId) : nodePassedCondition(c.sourceId, conds)

(* a variant that lets every unexecuted non-Trigger node through *)
GatesClear_Ungated(node, executed, conds) ==
    /\ ~SeqHas(executed, node.id)
    /\ node.type # NT_TRIGGER

(* a variant that waits for the Trigger sources only *)
GatesClear_TriggerParents(node, executed, conds) ==
    /\ ~SeqHas(executed, node.id)
    /\ node.type # NT_TRIGGER
    /\ parentConnections(node.id) # {}
    /\ \A c \in parentConnections(node.id) :
          (HasNode(c.sourceId) /\ FindNode(c.sourceId).type = NT_TRIGGER) =>
              SeqHas(executed, c.sourceId)
    /\ anyParentPassed(node.id, conds)

(* a variant without the already-executed test *)
GatesClear_Reexecutes(node, executed, conds) ==
    /\ node.type # NT_TRIGGER
    /\ parentConnections(node.id) # {}
    /\ allParentsExecuted(node.id, executed)
    /\ anyParentPassed(node.id, conds)

(* a variant without the all-parents-executed gate *)
GatesClear_AnyParent(node, executed, conds) ==
    /\ ~SeqHas(executed, node.id)
    /\ node.type # NT_TRIGGER
    /\ parentConnections(node.id) # {}
    /\ anyParentPassed(node.id, conds)

(* the body of `for (const node of this.nodes)` reaches executeNode *)
GatesClear(node, executed, conds) ==
    /\ ~SeqHas(executed, node.id)
    /\ node.type # NT_TRIGGER
    /\ parentConnections(node.id) # {}
    /\ allParentsExecuted(node.id, executed)
    /\ anyParentPassed(node.id, conds)

----------------------------------------------------------------------------
(* execute() *)

NoResult == [returned |-> FALSE]

cur == State(logs, executedNodes, nodeConditions)

Assign(st) ==
    /\ logs' = st.logs
    /\ executedNodes' = st.executedNodes
    /\ nodeConditions' = st.nodeConditions

(* lines 39-70: reset, find the triggers, fail when there is none *)
Execute ==
    /\ pc = "start"
    /\ IF Len(findTriggerNodes) = 0
       THEN /\ logs' = <<LogEntry("ERROR", "no-trigger", NoNode, FALSE, 0)>>
            /\ result' = [returned |-> TRUE, success |-> FALSE, logs |-> logs',
                          executedNodes |-> <<>>, error |-> "No trigger nodes found"]
            /\ pc' = "done"
       ELSE /\ logs' = <<>>
            /\ result' = result
            /\ pc' = "triggers"
    /\ executedNodes' = <<>>
    /\ nodeConditions' = [n \in DOMAIN nodeConditions |-> "unset"]
    /\ ti' = 1
    /\ UNCHANGED <<nodes, connections, event, changed, iterations, ni, others>>

(* lines 73-79: one iteration of the trigger loop; a throw of the matcher
   is not caught and rejects execute() *)
TriggerStep ==
    /\ pc = "triggers"
    /\ LET triggerNode == findTriggerNodes[ti]
           fire == shouldExecuteTrigger(triggerNode, event)
       IN  IF fire.threw
           THEN /\ pc' = "rejected"
                /\ UNCHANGED <<logs, executedNodes, nodeConditions, ti, changed, iterations>>
           ELSE /\ Assign(IF fire.val THEN executeNode(triggerNode, cur, event) ELSE cur)
                /\ ti' = ti + 1
                /\ IF ti = Len(findTriggerNodes)
                   THEN pc' = "while" /\ changed' = TRUE /\ iterations' = 0
                   ELSE pc' = "triggers" /\ UNCHANGED <<changed, iterations>>
    /\ UNCHANGED <<nodes, connections, event, ni, result, others>>

(* a variant with `>` for `>=` *)
timeoutLog_Strict(st, iters) ==
    IF iters > maxIterations
    THEN addLog(st, LogEntry("ERROR", "timeout", NoNode, FALSE, 0))
    ELSE st

(* lines 160-169 *)
timeoutLog(st, iters) ==
    IF iters >= maxIterations
    THEN addLog(st, LogEntry("ERROR", "timeout", NoNode, FALSE, 0))
    ELSE st

(* line 127: the loop test; lines 160-169 and 84-88 when it fails *)
While ==
    /\ pc = "while"
    /\ IF changed /\ iterations < maxIterations
       THEN /\ changed' = FALSE
            /\ iterations' = iterations + 1
            /\ ni' = 1
            /\ pc' = "for"
            /\ UNCHANGED <<logs, result>>
       ELSE /\ logs' = timeoutLog(cur, iterations).logs
            /\ result' = [returned |-> TRUE, success |-> TRUE, logs |-> logs',
                          executedNodes |-> executedNodes, error |-> ""]
            /\ pc' = "done"
            /\ UNCHANGED <<changed, iterations, ni>>
    /\ UNCHANGED <<nodes, connections, event, executedNodes, nodeConditions, ti, others>>

(* lines 131-157: one iteration of the loop over this.nodes *)
(* a variant in which only a newly executed node counts as progress *)
For_NoProgressOnFault ==
    /\ pc = "for"
    /\ LET node == thisNodes[ni]
       IN  IF GatesClear(node, executedNodes, nodeConditions)
           THEN /\ Assign(executeNode(node, cur, event))
                /\ changed' = (changed \/ SeqHas(executedNodes', node.id))
           ELSE UNCHANGED <<logs, executedNodes, nodeConditions, changed>>
    /\ ni' = ni + 1
    /\ pc' = IF ni = Len(thisNodes) THEN "while" ELSE "for"
    /\ UNCHANGED <<nodes, connections, event, ti, iterations, result, others>>

(* lines 131-156: one node of one pass *)
For ==
    /\ pc = "for"
    /\ LET node == thisNodes[ni]
       IN  IF GatesClear(node, executedNodes, nodeConditions)
           THEN Assign(executeNode(node, cur, event)) /\ changed' = TRUE
           ELSE UNCHANGED <<logs, executedNodes, nodeConditions, changed>>
    /\ ni' = ni + 1
    /\ pc' = IF ni = Len(thisNodes) THEN "while" ELSE "for"
    /\ UNCHANGED <<nodes, connections, event, ti, iterations, result, others>>

Next == Execute \/ TriggerStep \/ While \/ For

----------------------------------------------------------------------------
(* The inputs *)

Node(id, type, enabled, data) ==
    [id |-> id, type |-> type, enabled |-> enabled, data |-> data]

TriggerData(eventType) == [eventType |-> eventType]

SimpleCondition(field, operator, value) ==
    [t |-> "object", mode |-> "SIMPLE", field |-> field, operator |-> operator,
     value |-> value, logic |-> "AND", conditions |-> <<>>]

ActionItem(type) == [t |-> "object", type |-> type]

ActionData(mode, actions) == [mode |-> mode, actions |-> actions]

TestEvent(type, data) == [type |-> type, data |-> JObj(data)]

(* a type with `*` whose regular expression has an unterminated group *)
Str_unterminated == <<"(", "*">>
Str_e1 == <<"e", "1">>
Str_e2 == <<"e", "2">>

(* Filter(field="data.coins", operator="GTE", value=100) *)
CoinsFilter == SimpleCondition(JPath(<<"data", "coins">>), "GTE", JNum(100))
(* a field that is no string: getValueFromPath calls split() on it *)
MalformedFilter == SimpleCondition(JNum(5), "GTE", JNum(100))
(* EffectGroup(mode=SEQUENCE, 2 actions) *)
SequenceOfTwo == ActionData("SEQUENCE", <<ActionItem("TTS_SPEECH"), ActionItem("OVERLAY_ALERT")>>)
(* an actions list holding null: executeAction reads a.type of it *)
MalformedAction == ActionData("SEQUENCE", <<JNull>>)

Malformed(n) == n.enabled /\ n.data \in {MalformedFilter, MalformedAction}

NodeIds == 1..MaxNodes

EnabledKinds ==
    ({NT_TRIGGER} \X {TriggerData(Str_e1), TriggerData(Str_unterminated)})
    \cup ({NT_CONDITION} \X {CoinsFilter, MalformedFilter})
    \cup ({NT_ACTION} \X {SequenceOfTwo, MalformedAction})

(* the configuration of a disabled node is never read *)
DisabledKinds ==
    {<<NT_TRIGGER, TriggerData(Str_e1)>>, <<NT_ACTION, SequenceOfTwo>>}

NodeChoices == ({TRUE} \X EnabledKinds) \cup ({FALSE} \X DisabledKinds)

Events ==
    {TestEvent(Str_e1, [coins |-> JNum(500)]),
     TestEvent(Str_e1, [coins |-> JNum(10)]),
     TestEvent(Str_e2, [coins |-> JNum(500)])}

Connection(sourceId, targetId) == [sourceId |-> sourceId, targetId |-> targetId]

AllConnections == {Connection(s, t) : s \in NodeIds, t \in NodeIds}

(* no other invocation *)
NoOthers == <<>>

Fresh ==
    /\ others = NoOthers
    /\ logs = <<>>
    /\ executedNodes = <<>>
    /\ nodeConditions = [n \in 1..Len(nodes) |-> "unset"]
    /\ pc = "start"
    /\ ti = 1
    /\ changed = TRUE
    /\ iterations = 0
    /\ ni = 1
    /\ result = NoResult

Init ==
    /\ \E ch \in [NodeIds -> NodeChoices] :
          /\ nodes = [i \in NodeIds |-> Node(i, ch[i][2][1], ch[i][1], ch[i][2][2])]
          /\ Cardinality({i \in NodeIds : Malformed(nodes[i])}) <= MaxMalformed
    /\ connections \in {c \in SUBSET AllConnections : Cardinality(c) <= MaxConns}
    /\ event \in Events
    /\ Fresh

Spec == Init /\ [][Next]_vars

----------------------------------------------------------------------------
(* The trigger matcher on every short pattern and event type: a Trigger with
   the pattern, a second node, and the connections between the two *)

Strings(alphabet, n) == UNION {[1..k -> alphabet] : k \in 0..n}

Str_tiktok_star == <<"t", "i", "k", "t", "o", "k", ".", "*">>
Str_twitch_star == <<"t", "w", "i", "t", "c", "h", ".", "*">>
Str_tiktok_gift_received ==
    <<"t", "i", "k", "t", "o", "k", ".", "g", "i", "f", "t", "_",
      "r", "e", "c", "e", "i", "v", "e", "d">>
Str_tiktok_gift == <<"t", "i", "k", "t", "o", "k", "_", "g", "i", "f", "t">>

Patterns ==
    Strings({"a", ".", "*", "("}, MaxPatLen)
    \cup {Str_any, Str_tiktok_star, Str_twitch_star}

EventTypes ==
    Strings({"a", "."}, MaxTypeLen)
    \cup {Str_tiktok_gift_received, Str_tiktok_gift}

InitTrigger ==
    /\ \E p \in Patterns :
       \E second \in {<<NT_TRIGGER, TriggerData(Str_any)>>, <<NT_ACTION, SequenceOfTwo>>} :
          nodes = <<Node(1, NT_TRIGGER, TRUE, TriggerData(p)),
                    Node(2, second[1], TRUE, second[2])>>
    /\ connections \in SUBSET {Connection(s, t) : s \in 1..2, t \in 1..2}
    /\ \E type \in EventTypes : event = TestEvent(type, [coins |-> JNum(500)])
    /\ Fresh

SpecTrigger == InitTrigger /\ [][Next]_vars

----------------------------------------------------------------------------
(* Vocabulary of the properties *)

Ids == DOMAIN nodes

Executed(i) == SeqHas(executedNodes, i)

NewlyExecuted(i) == SeqHas(executedNodes', i) /\ ~SeqHas(executedNodes, i)

Logged(suffix, i) ==
    \E k \in 1..Len(logs) : logs[k].suffix = suffix /\ logs[k].nodeId = i

ConditionLogged(i, passed) ==
    \E k \in 1..Len(logs) :
        logs[k].suffix = "condition" /\ logs[k].nodeId = i /\ logs[k].passed = passed

CountLogs(suffix) == Cardinality({k \in 1..Len(logs) : logs[k].suffix = suffix})

Sources(i) == {c.sourceId : c \in {d \in connections : d.targetId = i}}

Targets(i) == {c.targetId : c \in {d \in connections : d.sourceId = i}}

(* a source passed: a Trigger or EffectGroup once executed, a Filter iff it
   evaluated true *)
SourcePassed(s) ==
    /\ Executed(s)
    /\ nodes[s].type = NT_CONDITION => ConditionLogged(s, TRUE)

NoEnabledTrigger == \A i \in Ids : ~(nodes[i].enabled /\ nodes[i].type = NT_TRIGGER)

(* the kind-specific step of node i raises *)
StepRaises(i) == nodes[i].enabled /\ kindStep(nodes[i], cur, event).threw

Coins == event.data.f.coins.v

(* Trigger(eventType=e1) -> Filter(data.coins GTE 100) -> EffectGroup(SEQUENCE, 2 actions) *)
IsChain(t, f, a) ==
    /\ nodes[t] = Node(t, NT_TRIGGER, TRUE, TriggerData(Str_e1))
    /\ nodes[f] = Node(f, NT_CONDITION, TRUE, CoinsFilter)
    /\ nodes[a] = Node(a, NT_ACTION, TRUE, SequenceOfTwo)
    /\ connections = {Connection(t, f), Connection(f, a)}

----------------------------------------------------------------------------
(* C1: a non-Trigger node is executed only when, in the state it is
   executed from, it has at least one incoming connection, every source of
   its incoming connections is already executed and at least one of them
   passed; so a non-Trigger node without incoming connections never is. *)
C1_GatedExecution ==
    [][\A i \in Ids :
          (NewlyExecuted(i) /\ nodes[i].type # NT_TRIGGER) =>
              /\ Sources(i) # {}
              /\ \A s \in Sources(i) : Executed(s)
              /\ \E s \in Sources(i) : SourcePassed(s)]_vars

C1_Witness ==
    \E i \in Ids :
        /\ nodes[i].type # NT_TRIGGER
        /\ Executed(i)
        /\ \E s \in Sources(i) : nodes[s].type = NT_CONDITION /\ ConditionLogged(s, TRUE)

(* C2: disabled nodes and their edges are excluded from a run: a disabled
   node is never executed nor named in the trace, and an enabled node whose
   enabled sources are all executed, one of them passed, is executed by the
   end of the run even if a disabled node is connected into it. *)
C2_DisabledEdgesAbsent ==
    /\ \A i \in Ids : ~nodes[i].enabled => ~Executed(i) /\ ~Logged("start", i)
    /\ (pc = "done" /\ iterations < maxIterations) =>
          \A i \in Ids :
              LET enabledSources == {s \in Sources(i) : nodes[s].enabled}
              IN  (/\ nodes[i].enabled
                   /\ nodes[i].type # NT_TRIGGER
                   /\ ~StepRaises(i)
                   /\ enabledSources # {}
                   /\ \A s \in enabledSources : Executed(s)
                   /\ \E s \in enabledSources : SourcePassed(s)) => Executed(i)

(* C3: when a node's kind-specific step raises, an ERROR entry follows its
   start entry, the node is not added to the executed set, no node with an
   incoming connection from it is executed from then on, and the run goes on
   to return its result. *)
C3_FailClosed ==
    /\ [](\A k \in 1..Len(logs) :
             (logs[k].suffix = "start" /\ StepRaises(logs[k].nodeId)) =>
                 /\ k < Len(logs)
                 /\ logs[k + 1] = LogEntry("ERROR", "error", logs[k].nodeId, FALSE, 0))
    /\ [](\A i \in Ids : StepRaises(i) => ~Executed(i))
    /\ []((\E i \in Ids : Logged("error", i)) =>
             (pc # "rejected" /\ (pc = "done" => result.returned /\ result.success)))
    /\ [][\A i \in Ids : Logged("error", i) =>
              /\ ~NewlyExecuted(i)
              /\ \A t \in Targets(i) : ~NewlyExecuted(t)]_vars

C3_Witness ==
    /\ pc = "done"
    /\ result.success
    /\ \E i \in Ids :
          /\ Logged("error", i)
          /\ \E t \in Targets(i) : t # i /\ nodes[t].enabled /\ ~StepRaises(t) /\ ~Executed(t)

(* C4: without an enabled Trigger node the run returns at once with
   success=false, error "No trigger nodes found" and no executed node; no
   node step runs and the propagation loop is never entered. *)
C4_NoTriggerFails ==
    NoEnabledTrigger =>
        /\ pc \in {"start", "done"}
        /\ executedNodes = <<>>
        /\ iterations = 0
        /\ CountLogs("start") = 0
        /\ pc = "done" =>
              /\ result.returned
              /\ result.success = FALSE
              /\ result.error = "No trigger nodes found"
              /\ result.executedNodes = <<>>

C4_Witness ==
    /\ NoEnabledTrigger
    /\ pc = "done"
    /\ \E i \in Ids : nodes[i].enabled /\ Sources(i) # {}

(* C5: with at least one enabled Trigger node the run always returns, and
   returns success=true. *)
C5_OnlyNoTriggerFails ==
    ~NoEnabledTrigger =>
        /\ pc # "rejected"
        /\ pc = "done" => result.returned /\ result.success

(* C6 as stated: in the chain with a matching event and a false filter the
   run returns success=true with exactly the Trigger and the Filter
   executed, the Filter logged passed=false; and no node, of whatever kind,
   all of whose sources are Filters that evaluated false is executed. *)
AllSourcesFailedFilters(i) ==
    /\ Sources(i) # {}
    /\ \A s \in Sources(i) : nodes[s].type = NT_CONDITION /\ ConditionLogged(s, FALSE)

ChainFilterFails ==
    \A t, f, a \in Ids :
        (IsChain(t, f, a) /\ event.type = Str_e1 /\ Coins < 100) =>
            /\ ~Executed(a)
            /\ pc = "done" =>
                  /\ result.success
                  /\ result.executedNodes = <<t, f>>
                  /\ ConditionLogged(f, FALSE)
                  /\ ~ConditionLogged(f, TRUE)

C6_FailedFilterStops_Original ==
    /\ ChainFilterFails
    /\ \A i \in Ids : AllSourcesFailedFilters(i) => ~Executed(i)

(* C6 as amended: the same, the general statement for non-Trigger nodes. *)
C6_FailedFilterStops ==
    /\ ChainFilterFails
    /\ \A i \in Ids :
          (nodes[i].type # NT_TRIGGER /\ AllSourcesFailedFilters(i)) => ~Executed(i)

C6_Witness ==
    /\ pc = "done"
    /\ event.type = Str_e1
    /\ Coins < 100
    /\ \E t, f, a \in Ids : IsChain(t, f, a)

(* C7: the chain with the event {type: e1, data: {coins: 500}} returns
   success=true with 3 executed nodes, and its trace holds one TRIGGER
   entry, one CONDITION entry with passed=true, two action dispatch entries
   and one completion entry. *)
C7_ChainScenario ==
    \A t, f, a \in Ids :
        (IsChain(t, f, a) /\ event.type = Str_e1 /\ Coins = 500 /\ pc = "done") =>
            /\ result.success
            /\ Len(result.executedNodes) = 3
            /\ {result.executedNodes[k] : k \in 1..3} = {t, f, a}
            /\ CountLogs("trigger") = 1
            /\ CountLogs("condition") = 1
            /\ ConditionLogged(f, TRUE)
            /\ CountLogs("action") = 2
            /\ CountLogs("action-complete") = 1
            /\ result.logs = logs

C7_Witness ==
    /\ pc = "done"
    /\ event.type = Str_e1
    /\ Coins = 500
    /\ \E t, f, a \in Ids : IsChain(t, f, a)

(* C8: a run whose loop reached the cap of 100 iterations returns
   success=true with exactly one timeout entry, the last of the trace, and
   with every node executed before the cap; no timeout entry exists before. *)
C8_CapReached ==
    /\ (pc = "done" /\ iterations >= maxIterations) =>
          /\ CountLogs("timeout") = 1
          /\ logs[Len(logs)] = LogEntry("ERROR", "timeout", NoNode, FALSE, 0)
          /\ result.returned
          /\ result.success
          /\ result.executedNodes = executedNodes
          /\ result.logs = logs
    /\ pc # "done" => CountLogs("timeout") = 0

C8_Witness ==
    /\ pc = "done"
    /\ iterations = maxIterations
    /\ Len(executedNodes) >= 2

(* the matcher accepts the event for Trigger i: as the claims state it for a
   type without `*`, as shouldExecuteTrigger answers for one with `*` *)
HasStar(i) == Includes(nodes[i].data.eventType, "*") /\ nodes[i].data.eventType # Str_any

MatcherAccepts(i) ==
    LET eventType == nodes[i].data.eventType
        answer == shouldExecuteTrigger(nodes[i], event)
    IN  CASE eventType \in {<<>>, Str_any} -> TRUE
          [] ~HasStar(i) -> event.type = eventType
          [] OTHER -> ~answer.threw /\ answer.val

EnabledTriggers == {i \in Ids : nodes[i].enabled /\ nodes[i].type = NT_TRIGGER}

RunEnded == pc \in {"done", "rejected"}

(* C9: a Trigger is executed in a run iff the matcher accepts the event for
   it: never when it does not, and by the end of the run when it does,
   whatever is connected into it. *)
C9_TriggerIffMatch ==
    /\ \A i \in EnabledTriggers : Executed(i) => MatcherAccepts(i)
    /\ RunEnded => \A i \in EnabledTriggers : MatcherAccepts(i) => Executed(i)

(* C9 in the runs that return: the same, for pc = "done" only. *)
C9_InReturnedRuns ==
    /\ \A i \in EnabledTriggers : Executed(i) => MatcherAccepts(i)
    /\ pc = "done" => \A i \in EnabledTriggers : MatcherAccepts(i) => Executed(i)

(* the glob of the claim: `*` stands for any sequence, every other character
   for itself, anchored at both ends *)
RECURSIVE GlobMatchFrom(_, _, _, _)
GlobMatchFrom(p, i, s, j) ==
    IF i > Len(p) THEN j > Len(s)
    ELSE IF p[i] = "*"
         THEN \/ GlobMatchFrom(p, i + 1, s, j)
              \/ j <= Len(s) /\ GlobMatchFrom(p, i, s, j + 1)
         ELSE j <= Len(s) /\ p[i] = s[j] /\ GlobMatchFrom(p, i + 1, s, j + 1)

GlobMatch(p, s) == GlobMatchFrom(p, 1, s, 1)

(* C10: a Trigger whose type holds `*` is executed, by the end of the run,
   iff its type matches the event type as a glob. *)
C10_GlobSemantics ==
    RunEnded =>
        \A i \in EnabledTriggers :
            HasStar(i) => (Executed(i) <=> GlobMatch(nodes[i].data.eventType, event.type))

----------------------------------------------------------------------------
(* Two invocations over the same graph.  The variables pc, ti, changed,
   iterations, ni, result and event are the locals of the invocation that is
   running; `others` holds the invocation that is waiting.  An invocation
   gives way where it awaits; the model lets it give way between two steps
   of its loops, a step being one trigger or one node visit. *)

Frame(p, t, ch, it, n, res, ev) ==
    [pc |-> p, ti |-> t, changed |-> ch, iterations |-> it, ni |-> n,
     result |-> res, event |-> ev]

curFrame == Frame(pc, ti, changed, iterations, ni, result, event)

(* the field initialisers of a newly constructed executor *)
NewExecutor == State(<<>>, <<>>, [n \in 1..Len(nodes) |-> "unset"])

(* a variant of executeWorkflow that keeps one executor for all its calls *)
OwnInstance_Reused(entry) == FALSE

(* the entry points: executeWorkflow constructs an executor of its own for
   the call; execute, the method of the exported class, works on `this` *)
OwnInstance(entry) == entry = "executeWorkflow"

Waiting(entry, ev) ==
    [entry |-> entry,
     frame |-> Frame("start", 1, TRUE, 0, 1, NoResult, ev),
     fields |-> NewExecutor,
     overlapped |-> FALSE]

Ended(p) == p \in {"done", "rejected"}

(* the running invocation awaits (or has ended) and the waiting one goes on *)
Yield ==
    /\ others # NoOthers
    /\ pc # "start"
    /\ ~Ended(others[1].frame.pc)
    /\ LET o == others[1]
       IN  /\ pc' = o.frame.pc
           /\ ti' = o.frame.ti
           /\ changed' = o.frame.changed
           /\ iterations' = o.frame.iterations
           /\ ni' = o.frame.ni
           /\ result' = o.frame.result
           /\ event' = o.frame.event
           /\ IF OwnInstance(o.entry) THEN Assign(o.fields)
              ELSE UNCHANGED <<logs, executedNodes, nodeConditions>>
           /\ others' = <<[o EXCEPT !.frame = curFrame,
                                    !.fields = IF OwnInstance(o.entry) THEN cur ELSE @,
                                    !.overlapped = @ \/ ~Ended(pc)]>>
    /\ UNCHANGED <<nodes, connections>>

NextRuns == Execute \/ TriggerStep \/ While \/ For \/ Yield

EntryPoints == {"executeWorkflow", "execute"}

RunKinds == {<<NT_TRIGGER, TriggerData(Str_e1)>>, <<NT_CONDITION, CoinsFilter>>,
             <<NT_ACTION, SequenceOfTwo>>}

InitRuns ==
    /\ \E ch \in [NodeIds -> RunKinds] :
          /\ ch[1][1] = NT_TRIGGER
          /\ nodes = [i \in NodeIds |-> Node(i, ch[i][1], TRUE, ch[i][2])]
    /\ connections \in {c \in SUBSET AllConnections : Cardinality(c) <= MaxConns}
    /\ event \in Events
    /\ \E entry \in EntryPoints, ev \in Events : others = <<Waiting(entry, ev)>>
    /\ logs = <<>>
    /\ executedNodes = <<>>
    /\ nodeConditions = [n \in 1..Len(nodes) |-> "unset"]
    /\ pc = "start"
    /\ ti = 1
    /\ changed = TRUE
    /\ iterations = 0
    /\ ni = 1
    /\ result = NoResult

SpecRuns == InitRuns /\ [][NextRuns]_vars

----------------------------------------------------------------------------
(* What a run returns when it runs alone, as a function of the event: the
   trigger loop, the passes of the propagation loop, the result *)

RECURSIVE RunTriggers(_, _, _)
RunTriggers(st, k, ev) ==
    IF k > Len(findTriggerNodes) THEN Returned(st)
    ELSE LET fire == shouldExecuteTrigger(findTriggerNodes[k], ev)
         IN  IF fire.threw THEN Threw
             ELSE RunTriggers(IF fire.val THEN executeNode(findTriggerNodes[k], st, ev) ELSE st,
                              k + 1, ev)

RECURSIVE RunPass(_, _, _, _)
RunPass(st, n, ch, ev) ==
    IF n > Len(thisNodes) THEN [st |-> st, changed |-> ch]
    ELSE IF GatesClear(thisNodes[n], st.executedNodes, st.nodeConditions)
         THEN RunPass(executeNode(thisNodes[n], st, ev), n + 1, TRUE, ev)
         ELSE RunPass(st, n + 1, ch, ev)

RECURSIVE RunPasses(_, _, _, _)
RunPasses(st, ch, it, ev) ==
    IF ch /\ it < maxIterations
    THEN LET pass == RunPass(st, 1, FALSE, ev)
         IN  RunPasses(pass.st, pass.changed, it + 1, ev)
    ELSE timeoutLog(st, it)

(* the result of the run, NoResult when execute() rejects *)
RunAlone(ev) ==
    IF Len(findTriggerNodes) = 0
    THEN [returned |-> TRUE, success |-> FALSE,
          logs |-> <<LogEntry("ERROR", "no-trigger", NoNode, FALSE, 0)>>,
          executedNodes |-> <<>>, error |-> "No trigger nodes found"]
    ELSE LET fired == RunTriggers(NewExecutor, 1, ev)
         IN  IF fired.threw THEN NoResult
             ELSE LET st == RunPasses(fired.val, TRUE, 0, ev)
                  IN  [returned |-> TRUE, success |-> TRUE, logs |-> st.logs,
                       executedNodes |-> st.executedNodes, error |-> ""]

(* the two invocations, and what an invocation that ended has returned *)
Invocations == IF others = NoOthers THEN {curFrame} ELSE {curFrame, others[1].frame}

Outcome(f) == IF f.pc = "done" THEN f.result ELSE NoResult

(* C11: of two invocations over the same graph, through whichever entry
   point the second was started and however the two interleave, each returns
   exactly the executed nodes and the trace it returns when it runs alone. *)
C11_RunsIndependent ==
    others # NoOthers =>
        \A f \in Invocations : Ended(f.pc) => Outcome(f) = RunAlone(f.event)

(* C11 for invocations that each have an executor of their own *)
C11_ThroughExecuteWorkflow ==
    (others # NoOthers /\ others[1].entry = "executeWorkflow") =>
        \A f \in Invocations : Ended(f.pc) => Outcome(f) = RunAlone(f.event)

(* the pass/fail outcomes of the Filters in a returned trace *)
FilterOutcomes(res) ==
    {<<res.logs[k].nodeId, res.logs[k].passed>> :
        k \in {j \in 1..Len(res.logs) : res.logs[j].suffix = "condition"}}

(* the second run has an executor of its own, or began after the first ended *)
RanTwice ==
    /\ others # NoOthers
    /\ others[1].frame.event = event
    /\ others[1].entry = "executeWorkflow" \/ ~others[1].overlapped
    /\ Ended(pc)
    /\ Ended(others[1].frame.pc)

(* C12: two runs of the same nodes, connections and event end alike: both
   return or both reject, with the same executed nodes in the same order and
   the same pass/fail outcome of every Filter. *)
C12_Deterministic ==
    RanTwice =>
        /\ pc = others[1].frame.pc
        /\ pc = "done" =>
              /\ result.success = others[1].frame.result.success
              /\ result.executedNodes = others[1].frame.result.executedNodes
              /\ FilterOutcomes(result) = FilterOutcomes(others[1].frame.result)

C12_Witness ==
    /\ RanTwice
    /\ pc = "done"
    /\ others[1].overlapped
    /\ Len(result.executedNodes) = 3
    /\ \E f \in Ids : <<f, TRUE>> \in FilterOutcomes(result)

----------------------------------------------------------------------------
(* validateWorkflow.  An error is a record: its kind and, for a node that is
   not connected, the id of the node. *)

NotConnectedError(nodeId) == [kind |-> "not-connected", nodeId |-> nodeId]
CycleError == [kind |-> "cycle", nodeId |-> NoNode]
NoTriggerError == [kind |-> "no-trigger", nodeId |-> NoNode]

(* a variant that collects the targets only *)
connectedNodeIds_TargetsOnly(conns) == {c.targetId : c \in conns}

connectedNodeIds(conns) == {c.sourceId : c \in conns} \cup {c.targetId : c \in conns}

(* the loop over the nodes that pushes the "is not connected" errors *)
RECURSIVE orphanErrors(_, _, _)
orphanErrors(ns, conns, k) ==
    IF k > Len(ns) THEN <<>>
    ELSE (IF ns[k].type # NT_TRIGGER /\ ns[k].id \notin connectedNodeIds(conns)
          THEN <<NotConnectedError(ns[k].id)>> ELSE <<>>)
         \o orphanErrors(ns, conns, k + 1)

(* connections.filter((c) => c.sourceId === nodeId), as the sequence of its
   targets; the connections of the model are a set, listed by target id *)
RECURSIVE Ascending(_)
Ascending(S) ==
    IF S = {} THEN <<>>
    ELSE LET least == CHOOSE x \in S : \A y \in S : x <= y
         IN  <<least>> \o Ascending(S \ {least})

outgoing(nodeId, conns) == Ascending({c.targetId : c \in {d \in conns : d.sourceId = nodeId}})

(* the two sets of the cycle check, and what hasCycle returned *)
Search(found, visited, recursionStack) ==
    [found |-> found, visited |-> visited, recursionStack |-> recursionStack]

enter(st, nodeId) ==
    Search(FALSE, st.visited \cup {nodeId}, st.recursionStack \cup {nodeId})

(* a variant that leaves the node on the recursion stack *)
leave_KeepsStack(st, nodeId) == Search(FALSE, st.visited, st.recursionStack)

(* recursionStack.delete(nodeId); return false *)
leave(st, nodeId) == Search(FALSE, st.visited, st.recursionStack \ {nodeId})

RECURSIVE hasCycle(_, _, _)
RECURSIVE hasCycleFrom(_, _, _, _, _)

(* the loop over the outgoing connections of nodeId, from the k-th on *)
hasCycleFrom(nodeId, out, k, conns, st) ==
    IF k > Len(out) THEN leave(st, nodeId)
    ELSE IF out[k] \notin st.visited
         THEN LET inner == hasCycle(out[k], conns, st)
              IN  IF inner.found THEN inner
                  ELSE hasCycleFrom(nodeId, out, k + 1, conns, inner)
         ELSE IF out[k] \in st.recursionStack
              THEN Search(TRUE, st.visited, st.recursionStack)
              ELSE hasCycleFrom(nodeId, out, k + 1, conns, st)

hasCycle(nodeId, conns, st) ==
    hasCycleFrom(nodeId, outgoing(nodeId, conns), 1, conns, enter(st, nodeId))

(* the loop over the nodes that starts hasCycle and breaks at the first cycle *)
RECURSIVE cycleErrors(_, _, _, _)
cycleErrors(ns, conns, k, st) ==
    IF k > Len(ns) THEN <<>>
    ELSE IF ns[k].id \notin st.visited
         THEN LET search == hasCycle(ns[k].id, conns, st)
              IN  IF search.found THEN <<CycleError>>
                  ELSE cycleErrors(ns, conns, k + 1, search)
         ELSE cycleErrors(ns, conns, k + 1, st)

triggerErrors(ns) ==
    IF Len(SelectSeq(ns, LAMBDA n : n.type = NT_TRIGGER)) = 0
    THEN <<NoTriggerError>> ELSE <<>>

ValidationResult(errors) == [valid |-> Len(errors) = 0, errors |-> errors]

(* a variant that returns as soon as one check has found an error *)
validateWorkflow_ShortCircuit(ns, conns) ==
    LET orphans == orphanErrors(ns, conns, 1)
        cycles == cycleErrors(ns, conns, 1, Search(FALSE, {}, {}))
    IN  IF orphans # <<>> THEN ValidationResult(orphans)
        ELSE IF cycles # <<>> THEN ValidationResult(cycles)
        ELSE ValidationResult(triggerErrors(ns))

validateWorkflow(ns, conns) ==
    ValidationResult(orphanErrors(ns, conns, 1)
                     \o cycleErrors(ns, conns, 1, Search(FALSE, {}, {}))
                     \o triggerErrors(ns))

(* one call of validateWorkflow on the nodes and the connections *)
Validate ==
    /\ pc = "validate"
    /\ result' = validateWorkflow(nodes, connections)
    /\ pc' = "validated"
    /\ UNCHANGED <<nodes, connections, event, logs, executedNodes, nodeConditions,
                   ti, changed, iterations, ni, others>>

NextValidate == Validate

(* the default configuration of createNode for each node type *)
DefaultData(type) ==
    CASE type = NT_TRIGGER -> TriggerData(Str_any)
      [] type = NT_CONDITION -> CoinsFilter
      [] type = NT_ACTION -> SequenceOfTwo

(* up to MaxNodes nodes; the connections name ids up to MaxNodes, listed or not *)
InitValidate ==
    /\ \E n \in 0..MaxNodes :
       \E types \in [1..n -> {NT_TRIGGER, NT_CONDITION, NT_ACTION}] :
          nodes = [i \in 1..n |-> Node(i, types[i], TRUE, DefaultData(types[i]))]
    /\ connections \in {c \in SUBSET AllConnections : Cardinality(c) <= MaxValConns}
    /\ event = TestEvent(Str_e1, [coins |-> JNum(500)])
    /\ others = NoOthers
    /\ logs = <<>>
    /\ executedNodes = <<>>
    /\ nodeConditions = [n \in 1..Len(nodes) |-> "unset"]
    /\ pc = "validate"
    /\ ti = 1
    /\ changed = TRUE
    /\ iterations = 0
    /\ ni = 1
    /\ result = NoResult

SpecValidate == InitValidate /\ [][NextValidate]_vars

----------------------------------------------------------------------------
(* Vocabulary of the validator's properties *)

Validated == pc = "validated"

ListedIds == {nodes[i].id : i \in 1..Len(nodes)}

Edges == {<<c.sourceId, c.targetId>> : c \in connections}

(* the pairs joined by a directed path of one connection or more *)
RECURSIVE PathsOf(_)
PathsOf(R) ==
    LET step == R \cup {<<u[1][1], u[2][2]>> : u \in {w \in R \X R : w[1][2] = w[2][1]}}
    IN  IF step = R THEN R ELSE PathsOf(step)

Reaches(a, b) == <<a, b>> \in PathsOf(Edges)

(* a directed cycle that is reachable from a listed node *)
CycleReachable ==
    \E n \in ListedIds, x \in NodeIds : (x = n \/ Reaches(n, x)) /\ Reaches(x, x)

Incident(i) == \E c \in connections : c.sourceId = i \/ c.targetId = i

Orphans == {i \in ListedIds : nodes[i].type # NT_TRIGGER /\ ~Incident(i)}

NoTriggerListed == \A i \in 1..Len(nodes) : nodes[i].type # NT_TRIGGER

CountErrors(error) ==
    Cardinality({k \in 1..Len(result.errors) : result.errors[k] = error})

(* C13: validate records the cycle error exactly once when the connections
   hold a directed cycle (a self-loop included) that is reachable from a
   listed node, and then valid is false; it records none otherwise. *)
C13_CycleError ==
    Validated =>
        IF CycleReachable
        THEN CountErrors(CycleError) = 1 /\ ~result.valid
        ELSE CountErrors(CycleError) = 0

(* the two paths 1 -> 3 and 1 -> 2 -> 3 converge on node 3 *)
C13_Witness ==
    /\ Validated
    /\ Len(nodes) = 3
    /\ connections = {Connection(1, 2), Connection(2, 3), Connection(1, 3)}
    /\ CountErrors(CycleError) = 0

(* C14: validate records a "not connected" error for a listed node, once,
   iff the node is no Trigger and its id is neither source nor target of a
   connection. *)
C14_NotConnected ==
    Validated =>
        \A i \in ListedIds :
            CountErrors(NotConnectedError(i)) = IF i \in Orphans THEN 1 ELSE 0

(* an EffectGroup without connections, one with an incoming connection, and
   a Trigger without incoming connections *)
C14_Witness ==
    /\ Validated
    /\ Len(nodes) = 3
    /\ nodes[1].type = NT_TRIGGER /\ nodes[2].type = NT_ACTION /\ nodes[3].type = NT_ACTION
    /\ connections = {Connection(1, 2)}
    /\ CountErrors(NotConnectedError(3)) = 1
    /\ CountErrors(NotConnectedError(2)) = 0
    /\ CountErrors(NotConnectedError(1)) = 0

(* C15: the errors are one "not connected" error per orphan, the cycle error
   if there is a cycle, the no-trigger error if no Trigger is listed, each
   whatever the other checks found, and nothing else; valid iff no error. *)
C15_ChecksIndependent ==
    Validated =>
        /\ \A i \in Orphans : CountErrors(NotConnectedError(i)) = 1
        /\ CycleReachable => CountErrors(CycleError) = 1
        /\ NoTriggerListed => CountErrors(NoTriggerError) = 1
        /\ Len(result.errors) = Cardinality(Orphans)
                                + (IF CycleReachable THEN 1 ELSE 0)
                                + (IF NoTriggerListed THEN 1 ELSE 0)
        /\ result.valid <=> result.errors = <<>>

(* the three checks fail together *)
C15_Witness ==
    /\ Validated
    /\ Orphans # {}
    /\ CycleReachable
    /\ NoTriggerListed
    /\ Len(result.errors) = 3

----------------------------------------------------------------------------
(* The condition evaluator on many Filters and events: a Trigger that fires
   on every event, connected to one Filter *)

GroupCondition(logic, conditions) ==
    [t |-> "object", mode |-> "GROUP", field |-> JUndefined, operator |-> "",
     value |-> JUndefined, logic |-> logic, conditions |-> conditions]

EvalPaths ==
    {JPath(<<"data", "coins">>), JPath(<<"coins">>), JPath(<<"a", "b", "c">>),
     JPath(<<"a", "b">>), JPath(<<"type", "length">>),
     JPath(<<"constructor", "constructor", "length">>)}

OrderingOperators == {"GT", ">", "LT", "<", "GTE", ">=", "LTE", "<="}

EvalOperators == OrderingOperators \cup {"EQ"}

EvalValues ==
    {JNum(100), JNum(5), JNum(1), JStr(<<"5">>), JStr(<<"a">>), JStr(<<>>), JNull, JUndefined}

SimpleConditions ==
    {SimpleCondition(f, o, v) : f \in EvalPaths, o \in EvalOperators, v \in EvalValues}

GroupMembers ==
    {SimpleCondition(JPath(<<"data", "coins">>), "GTE", JNum(100)),
     SimpleCondition(JPath(<<"coins">>), "LT", JNum(100)),
     SimpleCondition(JPath(<<"coins">>), "EQ", JStr(<<"5">>)),
     SimpleCondition(JPath(<<"a", "b", "c">>), "GT", JNum(5))}

GroupConditions ==
    {GroupCondition(l, c) :
        l \in {"AND", "OR", ""},
        c \in UNION {[1..k -> GroupMembers] : k \in 0..MaxGroupLen}}

EvalData ==
    {[coins |-> JNum(500)], [coins |-> JNum(5)], [coins |-> JStr(<<"5">>)],
     [coins |-> JStr(<<"a">>)], [coins |-> JNull],
     [a |-> JObj([b |-> JObj([c |-> JNum(7)])])], [a |-> JObj([b |-> JNull])],
     [a |-> JObj([b |-> JStr(<<"a">>)])], [a |-> JObj([c |-> JNum(7)])],
     [a |-> JStr(<<"a">>)], [a |-> JNum(5)], [a |-> JNull]}

InitEval ==
    /\ \E cond \in SimpleConditions \cup GroupConditions :
          nodes = <<Node(1, NT_TRIGGER, TRUE, TriggerData(Str_any)),
                    Node(2, NT_CONDITION, TRUE, cond)>>
    /\ connections = {Connection(1, 2)}
    /\ \E data \in EvalData : event = TestEvent(Str_e1, data)
    /\ Fresh

SpecEval == InitEval /\ [][Next]_vars

----------------------------------------------------------------------------
(* Vocabulary of the evaluator's properties: the Filter is node 2 *)

FilterData == nodes[2].data

FilterEvaluated == pc = "done" /\ Logged("condition", 2) /\ ~Logged("error", 2)

FilterPassed == ConditionLogged(2, TRUE)

(* a sub-condition as a simple triple: what its field resolves to, compared
   by its operator with its value *)
TripleHolds(c) == compareValues(getValueFromPath(c.field, event).val, c.operator, c.value)

(* C16: a grouped Filter is evaluated without error; it passes with an empty
   condition list, with logic AND iff every sub-condition holds as a simple
   triple, with logic OR iff at least one does. *)
C16_GroupLogic ==
    (pc = "done" /\ FilterData.mode = "GROUP") =>
        LET conditions == FilterData.conditions
        IN  /\ FilterEvaluated
            /\ conditions = <<>> => FilterPassed
            /\ FilterData.logic = "AND" =>
                  (FilterPassed <=> \A i \in 1..Len(conditions) : TripleHolds(conditions[i]))
            /\ (FilterData.logic = "OR" /\ conditions # <<>>) =>
                  (FilterPassed <=> \E i \in 1..Len(conditions) : TripleHolds(conditions[i]))

(* an OR group without conditions has passed *)
C16_Witness ==
    /\ pc = "done"
    /\ FilterData.mode = "GROUP"
    /\ FilterData.logic = "OR"
    /\ FilterData.conditions = <<>>
    /\ FilterPassed

(* the numeric comparison an ordering operator stands for *)
Ordered(operator, a, b) ==
    CASE operator \in {"GT", ">"} -> a > b
      [] operator \in {"LT", "<"} -> a < b
      [] operator \in {"GTE", ">="} -> a >= b
      [] operator \in {"LTE", "<="} -> a <= b

Actual == getValueFromPath(FilterData.field, event).val

OrderingFilter ==
    /\ pc = "done"
    /\ FilterData.mode = "SIMPLE"
    /\ FilterData.operator \in OrderingOperators

(* C17: a Filter with an ordering operator is evaluated without error; it
   fails when the resolved value or the expected value does not convert to
   a number, and otherwise passes iff the two numbers compare as the
   operator says. *)
C17_OrderingCoercion ==
    OrderingFilter =>
        /\ FilterEvaluated
        /\ IF isNaN(ToNumber(Actual)) \/ isNaN(ToNumber(FilterData.value))
           THEN ~FilterPassed
           ELSE FilterPassed <=> Ordered(FilterData.operator, ToNumber(Actual).v,
                                         ToNumber(FilterData.value).v)

(* a missing field under >= *)
C17_Witness ==
    /\ OrderingFilter
    /\ FilterData.operator = ">="
    /\ Actual = JUndefined
    /\ ~isNaN(ToNumber(FilterData.value))
    /\ ConditionLogged(2, FALSE)

(* the value that the first k parts of a path name in the merged view, by
   the properties the values themselves have; JUndefined when one is absent *)
HasOwn(value, part) ==
    \/ value.t = "object" /\ part \in DOMAIN value.f
    \/ value.t = "string" /\ part = "length"

Named(parts, k) ==
    LET walk[i \in 0..k] ==
            IF i = 0 THEN mergedView(event)
            ELSE IF HasOwn(walk[i - 1], parts[i]) THEN GetProp(walk[i - 1], parts[i])
            ELSE JUndefined
    IN  walk[k]

(* of a path a.b.c: a or a.b is absent *)
PrefixAbsent(parts) == \E k \in 1..(Len(parts) - 1) : Named(parts, k) = JUndefined

(* C18: resolving a path of which a proper prefix is absent from the merged
   view returns undefined and does not throw, whatever the prefix that is
   present is. *)
C18_MissingPath ==
    (pc = "done" /\ FilterData.mode = "SIMPLE" /\ PrefixAbsent(FilterData.field.parts)) =>
        /\ FilterEvaluated
        /\ getValueFromPath(FilterData.field, event) = Returned(JUndefined)

(* C18 for the paths none of whose parts names an inherited property *)
C18_OwnPropertiesOnly ==
    (/\ pc = "done"
     /\ FilterData.mode = "SIMPLE"
     /\ PrefixAbsent(FilterData.field.parts)
     /\ ~SeqHas(FilterData.field.parts, "constructor")) =>
        /\ FilterEvaluated
        /\ getValueFromPath(FilterData.field, event) = Returned(JUndefined)

----------------------------------------------------------------------------
(* The run under a scheduler that always resumes it: every await of
   execute() is on a promise that settles (a timer, or a call that returns) *)

SpecLive == Spec /\ WF_vars(Next)

NonTriggers == {i \in Ids : nodes[i].enabled /\ nodes[i].type # NT_TRIGGER}

NoFaultYet == CountLogs("error") = 0

(* C19: the propagation loop makes at most 100 passes; while no node step
   has faulted, every pass but the last has executed a new node, so the
   passes are at most the enabled non-Trigger nodes plus one; and the run
   ends, on every graph. *)
C19_LoopTerminates ==
    /\ [](iterations <= maxIterations)
    /\ [](NoFaultYet =>
             /\ iterations <= Cardinality({i \in NonTriggers : Executed(i)}) + 1
             /\ iterations <= Cardinality(NonTriggers) + 1)
    /\ <>RunEnded

(* a run without faults has ended after as many passes as the bound allows *)
C19_Witness ==
    /\ pc = "done"
    /\ NoFaultYet
    /\ Cardinality(NonTriggers) = 2
    /\ iterations = Cardinality(NonTriggers) + 1

(* node i is eligible: enabled, no Trigger, not executed, with at least one
   incoming connection, all of its sources executed and one of them passed *)
Eligible(i) ==
    /\ nodes[i].enabled
    /\ nodes[i].type # NT_TRIGGER
    /\ ~Executed(i)
    /\ Sources(i) # {}
    /\ \A s \in Sources(i) : Executed(s)
    /\ \E s \in Sources(i) : nodes[s].enabled /\ SourcePassed(s)

(* C20: when the loop has stopped without reaching the cap, no eligible node
   is left. *)
C20_FixpointComplete ==
    (pc = "done" /\ result.success /\ iterations < maxIterations) =>
        \A i \in Ids : ~Eligible(i)

(* the loop stopped below the cap and left a node behind that is not eligible *)
C20_Witness ==
    /\ pc = "done"
    /\ result.success
    /\ iterations \in 2..(maxIterations - 1)
    /\ \E i \in NonTriggers : ~Executed(i) /\ Sources(i) # {} /\ \A s \in Sources(i) : Executed(s)

----------------------------------------------------------------------------
(* Order of the trace *)

IsPrefix(s, t) == Len(s) <= Len(t) /\ SubSeq(t, 1, Len(s)) = s

(* the entries that name node i *)
EntriesOf(i) == {k \in 1..Len(logs) : logs[k].nodeId = i}

Position(i) == CHOOSE k \in 1..Len(executedNodes) : executedNodes[k] = i

(* C21: every step of a run leaves the entries of the trace in place and
   adds at its end; and for every executed non-Trigger node, every source of
   its incoming connections is listed before it in the executed set and has
   all its entries before all entries of the node. *)
C21_CausalTrace ==
    /\ [][IsPrefix(logs, logs')]_vars
    /\ [](\A i \in Ids :
             (Executed(i) /\ nodes[i].type # NT_TRIGGER) =>
                 \A s \in Sources(i) :
                     /\ Executed(s)
                     /\ Position(s) < Position(i)
                     /\ \A k \in EntriesOf(s), j \in EntriesOf(i) : k < j)

(* a node with two sources has been executed *)
C21_Witness ==
    /\ pc = "done"
    /\ \E i \in Ids :
          /\ nodes[i].type # NT_TRIGGER
          /\ Executed(i)
          /\ Cardinality(Sources(i)) = 2

(* the connections between enabled non-Trigger nodes *)
InnerEdges ==
    {<<c.sourceId, c.targetId>> :
        c \in {d \in connections :
                   /\ d.sourceId \in NonTriggers
                   /\ d.targetId \in NonTriggers}}

(* node i lies on a directed cycle of enabled non-Trigger nodes *)
OnInnerCycle(i) == <<i, i>> \in PathsOf(InnerEdges)

(* C28: a node on a directed cycle of enabled non-Trigger nodes is never
   executed. *)
C28_CycleNeverRuns ==
    \A i \in Ids : OnInnerCycle(i) => ~Executed(i)

(* a node on a cycle whose other source, a Trigger, has been executed *)
C28_Witness ==
    /\ pc = "done"
    /\ \E i \in Ids :
          /\ OnInnerCycle(i)
          /\ \E s \in Sources(i) : nodes[s].type = NT_TRIGGER /\ Executed(s)

(* the connections between executed enabled nodes *)
ExecutedEdges ==
    {<<c.sourceId, c.targetId>> :
        c \in {d \in connections :
                   /\ d.sourceId \in Ids /\ nodes[d.sourceId].enabled /\ Executed(d.sourceId)
                   /\ d.targetId \in Ids /\ nodes[d.targetId].enabled /\ Executed(d.targetId)}}

(* C29: in every state of a run, each non-Trigger node of the executed set
   is the end of a path of connections that starts at an executed Trigger
   and passes only through executed enabled nodes. *)
C29_ReachableFromTrigger ==
    \A i \in Ids :
        (Executed(i) /\ nodes[i].type # NT_TRIGGER) =>
            \E t \in Ids :
                /\ nodes[t].type = NT_TRIGGER
                /\ Executed(t)
                /\ <<t, i>> \in PathsOf(ExecutedEdges)

(* a node was executed at the end of a path of two connections *)
C29_Witness ==
    \E t, m, i \in Ids :
        /\ nodes[t].type = NT_TRIGGER
        /\ nodes[m].type # NT_TRIGGER
        /\ nodes[i].type # NT_TRIGGER
        /\ m # i
        /\ connections = {Connection(t, m), Connection(m, i)}
        /\ Executed(i)

CountFor(suffix, i) ==
    Cardinality({k \in EntriesOf(i) : logs[k].suffix = suffix})

(* C30: the executed set holds each node id once and only grows; the entries
   of a node in the executed set never change again; the trace holds at most
   one TRIGGER entry, one CONDITION entry and one completion entry per node,
   and exactly one start entry per executed node; a recorded outcome never
   changes. *)
C30_ExecutedOnce ==
    /\ [](\A j, k \in 1..Len(executedNodes) :
             executedNodes[j] = executedNodes[k] => j = k)
    /\ [][IsPrefix(executedNodes, executedNodes')]_vars
    /\ [][\A i \in Ids :
             Executed(i) =>
                 {k \in 1..Len(logs') : logs'[k].nodeId = i} = EntriesOf(i)]_vars
    /\ [](\A i \in Ids :
             /\ CountFor("trigger", i) <= 1
             /\ CountFor("condition", i) <= 1
             /\ CountFor("action-start", i) <= 1
             /\ CountFor("action-complete", i) <= 1
             /\ Executed(i) => CountFor("start", i) = 1)
    /\ [][\A i \in Ids :
             nodeConditions[i] # "unset" => nodeConditions'[i] = nodeConditions[i]]_vars

(* a Filter was executed in an earlier pass than the last one *)
C30_Witness ==
    /\ pc = "for"
    /\ iterations = 2
    /\ \E i \in Ids :
          /\ nodes[i].type = NT_CONDITION
          /\ Executed(i)
          /\ nodeConditions[i] = "true"
          /\ thisNodes[ni].id = i

ErrorsOf(i) == CountFor("error", i)

(* the node of the For step about to be taken passes the gates and raises *)
FaultingAttempt ==
    /\ pc = "for"
    /\ GatesClear(thisNodes[ni], executedNodes, nodeConditions)
    /\ kindStep(thisNodes[ni], cur, event).threw

(* C27: an attempt that faults adds the start entry and one ERROR entry of
   the node, leaves the node unexecuted and counts as progress; no other
   step adds a node-level ERROR entry; and a run that ends with an eligible
   node whose step faults has made all 100 passes, has one ERROR entry of
   that node for each pass since the node became eligible, ends with the
   timeout entry, and has executed every eligible node that does not fault
   exactly once. *)
C27_FaultRetried ==
    /\ [][FaultingAttempt =>
             /\ logs' = logs \o
                    <<LogEntry("INIT", "start", thisNodes[ni].id, FALSE, 0),
                      LogEntry("ERROR", "error", thisNodes[ni].id, FALSE, 0)>>
             /\ executedNodes' = executedNodes
             /\ changed']_vars
    /\ [][~FaultingAttempt =>
             \A i \in Ids :
                 Cardinality({k \in 1..Len(logs') :
                     logs'[k].nodeId = i /\ logs'[k].suffix = "error"}) = ErrorsOf(i)]_vars
    /\ [](pc = "done" =>
             \A i \in Ids :
                 (Eligible(i) /\ StepRaises(i)) =>
                     /\ iterations = maxIterations
                     /\ ErrorsOf(i) <= maxIterations
                     /\ ErrorsOf(i) > maxIterations - Cardinality(NonTriggers)
                     /\ CountLogs("timeout") = 1
                     /\ logs[Len(logs)].suffix = "timeout"
                     /\ \A j \in Ids :
                           /\ Eligible(j) => StepRaises(j)
                           /\ Executed(j) => CountFor("start", j) = 1)

(* a run ended with a faulting node and an executed node behind the same
   Trigger *)
C27_Witness ==
    /\ pc = "done"
    /\ \E i, j \in Ids :
          /\ Eligible(i) /\ StepRaises(i)
          /\ ErrorsOf(i) = maxIterations
          /\ nodes[j].type # NT_TRIGGER
          /\ Executed(j)

----------------------------------------------------------------------------
(* EffectGroups of every mode *)

ActionModes == {"SINGLE", "SEQUENCE", "ALL"}

ActionTypeOf(k) == IF k % 2 = 1 THEN "TTS_SPEECH" ELSE "OVERLAY_ALERT"

ActionList(n) == [k \in 1..n |-> ActionItem(ActionTypeOf(k))]

ActionKinds ==
    ({NT_ACTION} \X ({ActionData(mo, ActionList(n)) : mo \in ActionModes, n \in 0..MaxActions}
                        \cup {MalformedAction}))
    \cup {<<NT_CONDITION, CoinsFilter>>}

ActionShapes ==
    {{Connection(1, 2), Connection(2, 3)},
     {Connection(1, 2), Connection(1, 3)},
     {Connection(1, 3), Connection(3, 2)}}

InitActions ==
    /\ \E k2, k3 \in ActionKinds :
          nodes = <<Node(1, NT_TRIGGER, TRUE, TriggerData(Str_e1)),
                    Node(2, k2[1], TRUE, k2[2]),
                    Node(3, k3[1], TRUE, k3[2])>>
    /\ connections \in ActionShapes
    /\ event \in {TestEvent(Str_e1, [coins |-> JNum(500)]),
                   TestEvent(Str_e1, [coins |-> JNum(10)])}
    /\ Fresh

SpecActions == InitActions /\ [][Next]_vars

(* the entries from k on that one execution of node i leaves after its
   start entry: n is their number *)
BodyAt(k, i, n) ==
    /\ k + n - 1 <= Len(logs)
    /\ \/ /\ n = 1
          /\ logs[k].nodeId = i
          /\ logs[k].suffix \in {"trigger", "condition", "error"}
       \/ /\ nodes[i].type = NT_ACTION
          /\ n = Len(nodes[i].data.actions) + 2
          /\ logs[k] = LogEntry("ACTION", "action-start", i, FALSE, 0)
          /\ \A d \in 1..Len(nodes[i].data.actions) :
                logs[k + d] = LogEntry("ACTION", "action", NoNode, FALSE, d - 1)
          /\ logs[k + n - 1] = LogEntry("ACTION", "action-complete", i, FALSE, 0)

RECURSIVE BlocksFrom(_)
(* the trace from entry k on is a sequence of whole executions, one after
   the other, with at most the timeout entry behind them *)
BlocksFrom(k) ==
    \/ k > Len(logs)
    \/ k = Len(logs) /\ logs[k].suffix \in {"timeout", "no-trigger"}
    \/ /\ k < Len(logs)
       /\ logs[k].suffix = "start"
       /\ logs[k].nodeId \in Ids
       /\ \E n \in 1..(MaxActions + 2) :
             BodyAt(k + 1, logs[k].nodeId, n) /\ BlocksFrom(k + 1 + n)

(* C22: the trace is a sequence of whole node executions: the start entry of
   a node, then either its one TRIGGER, CONDITION or ERROR entry, or, for an
   EffectGroup of any mode, its action-start entry, one dispatch entry per
   configured action in configured order, and its completion entry; no entry
   of another node lies inside an execution. *)
C22_SequentialExecution == BlocksFrom(1)

(* an EffectGroup of mode ALL with two actions was executed between the
   executions of two other nodes *)
C22_Witness ==
    /\ pc = "done"
    /\ \E i, j \in Ids :
          /\ nodes[i].type = NT_ACTION
          /\ nodes[i].data.mode = "ALL"
          /\ Len(nodes[i].data.actions) = MaxActions
          /\ Executed(i)
          /\ nodes[j].type # NT_TRIGGER
          /\ Executed(j)
          /\ Position(i) < Position(j)

(* the same for an EffectGroup of mode SINGLE *)
C22_WitnessSingle ==
    /\ pc = "done"
    /\ \E i \in Ids :
          /\ nodes[i].type = NT_ACTION
          /\ nodes[i].data.mode = "SINGLE"
          /\ Len(nodes[i].data.actions) = MaxActions
          /\ Executed(i)

----------------------------------------------------------------------------
(* Filters with the string operators *)

CompareOperators == {"CONTAINS", "MATCHES", "IN", "NOT_IN", "RANGE", "BOGUS"}

(* the values a Filter is configured with *)
CompareExpected ==
    {JStr(<<"a">>), JStr(<<"A", "b">>), JStr(<<"0">>), JStr(<<"5">>), JStr(<<>>),
     JStr(<<"(">>), JStr(<<"*", "a">>), JStr(<<"a", "*">>),
     JStr(<<"1", ",", "1", "0">>), JStr(<<",", "1", "0">>), JStr(<<"1", "0">>),
     JStr(<<"1", ",", "a">>), JStr(<<"a", ",", ",", "b">>), JStr(<<"a", ",", " ", "5">>),
     JNum(0), JNum(5), JBool(TRUE), JBool(FALSE), JUndefined}

(* the values the event holds in data.coins; <<>> stands for no coins *)
CompareData ==
    {[coins |-> v] : v \in {JNum(5), JNum(0), JNum(50), JStr(<<"a">>), JStr(<<"c", "A", "B">>),
                            JStr(<<"5">>), JStr(<<>>), JBool(TRUE), JBool(FALSE), JNull}}
    \cup {<<>>}

InitCompare ==
    /\ \E o \in CompareOperators, v \in CompareExpected :
          nodes = <<Node(1, NT_TRIGGER, TRUE, TriggerData(Str_any)),
                    Node(2, NT_CONDITION, TRUE,
                         SimpleCondition(JPath(<<"data", "coins">>), o, v)),
                    Node(3, NT_ACTION, TRUE, SequenceOfTwo)>>
    /\ connections = {Connection(1, 2), Connection(2, 3)}
    /\ \E data \in CompareData : event = TestEvent(Str_e1, data)
    /\ Fresh

SpecCompare == InitCompare /\ [][Next]_vars

Expected == FilterData.value

Primitive(v) == v.t \in {"string", "number", "boolean"}

(* the string form of a value: what String(v) returns *)
StringForm(v) == String(v)

(* a RANGE value is two numbers with a comma between them *)
IsNumeral(s) == trim(s) # <<>> /\ ~isNaN(StringToNumber(s))

RangeWellFormed(v) ==
    /\ v.t = "string"
    /\ Len(split(v.s)) = 2
    /\ \A k \in 1..2 : IsNumeral(split(v.s)[k])

(* an IN value is a list of items with commas between them, none empty *)
InWellFormed(v) ==
    /\ v.t = "string"
    /\ \A k \in 1..Len(split(v.s)) : trim(split(v.s)[k]) # <<>>

(* the Filter's configuration is in error *)
ConfigError ==
    \/ FilterData.operator = "BOGUS"
    \/ FilterData.operator = "RANGE" /\ ~RangeWellFormed(Expected)
    \/ FilterData.operator = "IN" /\ ~InWellFormed(Expected)
    \/ /\ FilterData.operator = "MATCHES"
       /\ Expected.t = "string"
       /\ ~RegExpValid(toLowerCase(Expected.s))

(* C23: when the run of a workflow whose Filter is configured in error has
   ended, the Filter is in the executed set, the trace holds one CONDITION
   entry of it, with passed = false, and no ERROR entry, and the node behind
   the Filter was not executed. *)
C23_ConfigErrorsFailClosed ==
    (pc = "done" /\ ConfigError) =>
        /\ Executed(2)
        /\ CountFor("condition", 2) = 1
        /\ ConditionLogged(2, FALSE)
        /\ ~ConditionLogged(2, TRUE)
        /\ CountLogs("error") = 0
        /\ ~Executed(3)

(* C23, the part the code keeps: a Filter configured in error raises no
   fault; it is executed and reports one CONDITION entry and no ERROR entry. *)
C23_ConfigErrorsNeverRaise ==
    (pc = "done" /\ ConfigError) =>
        /\ Executed(2)
        /\ CountFor("condition", 2) = 1
        /\ CountLogs("error") = 0
        /\ Executed(3) <=> ConditionLogged(2, TRUE)

(* C24: a Filter with CONTAINS and primitive operands passes iff the
   lower-cased string form of its value occurs inside the lower-cased string
   form of what its field resolves to. *)
C24_ContainsStringForms ==
    (FilterEvaluated /\ FilterData.operator = "CONTAINS"
        /\ Primitive(Actual) /\ Primitive(Expected)) =>
        (FilterPassed <=>
            includes(toLowerCase(StringForm(Actual)), toLowerCase(StringForm(Expected))))

(* C24, the part the code keeps: the same when neither operand is 0, false
   or the empty string. *)
C24_ContainsTruthy ==
    (FilterEvaluated /\ FilterData.operator = "CONTAINS"
        /\ Primitive(Actual) /\ Primitive(Expected)
        /\ ~Falsy(Actual) /\ ~Falsy(Expected)) =>
        (FilterPassed <=>
            includes(toLowerCase(StringForm(Actual)), toLowerCase(StringForm(Expected))))

----------------------------------------------------------------------------
(* Long chains: a Trigger and n EffectGroups behind one another *)

ChainLengths == {1, MaxChain - 1, MaxChain}

(* listed in the order of the chain, every node is reached in the first
   pass *)
ForwardChain(n) == {Connection(i, i + 1) : i \in 1..n}

(* listed against the order of the chain, each pass reaches one node *)
ReverseChain(n) == {Connection(1, n + 1)} \cup {Connection(i + 1, i) : i \in 2..n}

InitChain ==
    /\ \E n \in ChainLengths :
          /\ nodes = [i \in 1..(n + 1) |->
                         IF i = 1 THEN Node(1, NT_TRIGGER, TRUE, TriggerData(Str_e1))
                         ELSE Node(i, NT_ACTION, TRUE, ActionData("SINGLE", ActionList(0)))]
          /\ connections \in {ForwardChain(n), ReverseChain(n)}
    /\ event = TestEvent(Str_e1, [coins |-> JNum(500)])
    /\ Fresh

SpecChain == InitChain /\ [][Next]_vars

(* the loop of the run stopped because its last pass executed no node *)
FixpointReached == pc = "done" /\ result.success /\ ~changed

(* C25: a run whose loop stopped because a pass executed no node has no
   timeout entry in its trace, whatever the number of its passes. *)
C25_NoTimeoutAtFixpoint == FixpointReached => CountLogs("timeout") = 0

(* C25, the part the code keeps: a trace with the timeout entry belongs to a
   run of 100 passes, and a run that reached the fixpoint in fewer passes has
   none. *)
C25_TimeoutOnlyAtCap ==
    /\ CountLogs("timeout") > 0 => iterations = maxIterations
    /\ (FixpointReached /\ iterations < maxIterations) => CountLogs("timeout") = 0

----------------------------------------------------------------------------
(* The simulation of the editor: validate, then run what is valid *)

(* simulateWorkflow after the validation: an invalid workflow is reported
   and not run, a valid one is handed to executeWorkflow *)
Deploy ==
    /\ pc = "validated"
    /\ IF result.valid
       THEN pc' = "start" /\ result' = NoResult
       ELSE pc' = "rejected" /\ result' = result
    /\ UNCHANGED <<nodes, connections, event, logs, executedNodes, nodeConditions,
                   ti, changed, iterations, ni, others>>

NextSimulate == Validate \/ Deploy \/ Execute \/ TriggerStep \/ While \/ For

(* the nodes of the canvas, each enabled or not *)
InitSimulate ==
    /\ \E n \in 1..MaxNodes :
       \E types \in [1..n -> {NT_TRIGGER, NT_CONDITION, NT_ACTION}],
          flags \in [1..n -> BOOLEAN] :
          nodes = [i \in 1..n |-> Node(i, types[i], flags[i], DefaultData(types[i]))]
    /\ connections \in {c \in SUBSET AllConnections : Cardinality(c) <= MaxConns}
    /\ event = TestEvent(Str_e1, [coins |-> JNum(500)])
    /\ others = NoOthers
    /\ logs = <<>>
    /\ executedNodes = <<>>
    /\ nodeConditions = [n \in 1..Len(nodes) |-> "unset"]
    /\ pc = "validate"
    /\ ti = 1
    /\ changed = TRUE
    /\ iterations = 0
    /\ ni = 1
    /\ result = NoResult

SpecSimulate == InitSimulate /\ [][NextSimulate]_vars

NoTriggerFailure ==
    result = [returned |-> TRUE, success |-> FALSE,
                 logs |-> <<LogEntry("ERROR", "no-trigger", NoNode, FALSE, 0)>>,
                 executedNodes |-> <<>>, error |-> "No trigger nodes found"]

(* C26: a workflow that validateWorkflow finds valid is never answered by
   the engine with the failure "No trigger nodes found", whatever the
   enabled flags of its nodes. *)
C26_ValidatorEngineAgree ==
    validateWorkflow(nodes, connections).valid => ~NoTriggerFailure

(* C26, the part the code keeps: the same when every Trigger node is
   enabled. *)
C26_AgreeWhenTriggersEnabled ==
    (/\ validateWorkflow(nodes, connections).valid
     /\ \A i \in Ids : nodes[i].type = NT_TRIGGER => nodes[i].enabled) =>
        ~NoTriggerFailure

====
